---- MODULE Spec2Model ----
(***************************************************************************)
(* bevy_mod_sprite3d: the per-frame sprite batching system of src/lib.rs.  *)
(*                                                                         *)
(* Every frame batch_sprites prunes the mesh entries of unloaded           *)
(* materials, clears the remaining meshes and appends one quad per visible *)
(* sprite to the mesh of the sprite's material.                            *)
(*                                                                         *)
(* Number representation.  Positions are kept in half-pixels (every        *)
(* coordinate is twice the f32 the code computes), so that size * 0.5 and  *)
(* the anchors +-0.5 stay integers.  A UV component is the exact fraction  *)
(* <<num, den>> in lowest terms; with the power-of-two image sizes used    *)
(* here the f32 product x * (1.0 / w) is that fraction exactly.  A unit    *)
(* vector is represented by the primitive integer vector of its direction, *)
(* and the NaN vector that normalising the zero vector gives by NaN3, the  *)
(* one triple that is no direction.                                        *)
(***************************************************************************)
EXTENDS Integers, Sequences, FiniteSets, TLC

VARIABLES
    sprites,      \* the query's rows, in iteration order: [sprite, transf, mat, vis]
    materials,    \* Assets<M>: the handles of the loaded materials
    images,       \* the materials whose base colour texture is in Assets<Image>
    meshes,       \* MeshBatch.meshes: material handle -> [entity, mesh]
    mesh_assets,  \* Assets<Mesh>: mesh handle -> mesh
    spawned,      \* entities spawned by commands.spawn: entity -> its material
    despawns,     \* entity -> number of commands.entity(e).despawn() issued
    pc,           \* position of batch_sprites within the frame
    cur,          \* index of the next row of the sprite loop
    settled,      \* history: a cycle has completed and no input changed since
    prev_out,     \* history: output of the cycle before, when the inputs are unchanged
    deferred,     \* history: rows whose latest visible submission could not resolve
    recovered     \* history: rows submitted resolvable in this frame after a deferral

vars == <<sprites, materials, images, meshes, mesh_assets, spawned, despawns,
          pc, cur, settled, prev_out, deferred, recovered>>

-----------------------------------------------------------------------------
(* Bounds of the model *)

MaxSprites == 2
MaxSpawned == 3

-----------------------------------------------------------------------------
(* Option<T> *)

None == <<>>
Some(v) == <<v>>
IsSome(o) == Len(o) = 1
Unwrap(o) == o[1]

-----------------------------------------------------------------------------
(* Arithmetic helpers *)

Abs(x) == IF x < 0 THEN -x ELSE x

RECURSIVE Gcd(_, _)
Gcd(a, b) == IF b = 0 THEN a ELSE Gcd(b, a % b)

\* The fraction n/d (d > 0) in lowest terms.
Frac(n, d) ==
    LET g == Gcd(Abs(n), d)
    IN  <<n \div g, d \div g>>

Gcd3(v) == Gcd(Gcd(Abs(v[1]), Abs(v[2])), Abs(v[3]))

NaN3 == <<0, 0, 0>>

Sub3(a, b) == <<a[1] - b[1], a[2] - b[2], a[3] - b[3]>>
Add3(a, b) == <<a[1] + b[1], a[2] + b[2], a[3] + b[3]>>

Cross(a, b) ==
    <<a[2] * b[3] - a[3] * b[2],
      a[3] * b[1] - a[1] * b[3],
      a[1] * b[2] - a[2] * b[1]>>

\* Vec3A::normalize: the direction of v; NaN for the zero vector.
Normalize(v) ==
    IF v = <<0, 0, 0>> THEN NaN3
    ELSE LET g == Gcd3(v)
         IN  <<v[1] \div g, v[2] \div g, v[3] \div g>>

\* Affine3A::transform_point3a on half-pixel coordinates: matrix3 * p + translation.
TransformPoint(transf, p) ==
    LET m == transf.matrix
        t == transf.translation
    IN  <<m[1][1] * p[1] + m[1][2] * p[2] + m[1][3] * p[3] + 2 * t[1],
          m[2][1] * p[1] + m[2][2] * p[2] + m[2][3] * p[3] + 2 * t[2],
          m[3][1] * p[1] + m[3][2] * p[2] + m[3][3] * p[3] + 2 * t[3]>>

-----------------------------------------------------------------------------
(* Inputs: materials, images, sprite descriptors, poses *)

\* The two materials of examples/sprite.rs.
Mats == {"pokey_mat", "health_mat"}

\* Pixel size of each material's base colour texture.
ImageSize(m) == IF m = "pokey_mat" THEN <<64, 64>> ELSE <<64, 32>>

Identity3 == <<<<1, 0, 0>>, <<0, 1, 0>>, <<0, 0, 1>>>>

\* Transform::from_xyz
FromXYZ(x, y, z) == [matrix |-> Identity3, translation |-> <<x, y, z>>]

\* A quarter turn about Y, a non-uniform scale and a scale that flattens the quad.
RotY90 == [matrix |-> <<<<0, 0, 1>>, <<0, 1, 0>>, <<-1, 0, 0>>>>, translation |-> <<0, 0, 0>>]
Scale21 == [matrix |-> <<<<2, 0, 0>>, <<0, 1, 0>>, <<0, 0, 1>>>>, translation |-> <<0, 64, 0>>]
ScaleZero == [matrix |-> <<<<0, 0, 0>>, <<0, 1, 0>>, <<0, 0, 1>>>>, translation |-> <<0, 0, 0>>]

Poses == {FromXYZ(0, 0, 0), FromXYZ(32, 0, 0), RotY90, Scale21, ScaleZero}

\* Anchor::as_vec, doubled: the anchors are multiples of 0.5.
Anchors == {"Center", "BottomRight", "TopLeft", "BottomCenter"}

AnchorVec2(anchor) ==
    CASE anchor = "Center"       -> <<0, 0>>
      [] anchor = "BottomRight"  -> <<1, -1>>
      [] anchor = "TopLeft"      -> <<-1, 1>>
      [] anchor = "BottomCenter" -> <<0, -1>>

\* Color::WHITE (sRGB) and Color::linear_rgb(1, 0, 0).
Colors == {[space |-> "srgba", rgba |-> <<1, 1, 1, 1>>],
           [space |-> "linear", rgba |-> <<1, 0, 0, 1>>]}

\* Color::to_linear().to_f32_array(): the sRGB transfer function fixes 0 and 1,
\* the only component values used here.
ToLinearArray(color) == color.rgba

\* Rect::new(x0, y0, x1, y1)
RectNew(x0, y0, x1, y1) == [min |-> <<x0, y0>>, max |-> <<x1, y1>>]

\* Rect::size
RectSize(rect) == <<rect.max[1] - rect.min[1], rect.max[2] - rect.min[2]>>

CustomSizes == {None, Some(<<10, 5>>)}
Rects == {None, Some(RectNew(10, 10, 48, 42)), Some(RectNew(0, 0, 48, 32))}

\* Sprite3d
Sprite3d(color, fx, fy, cs, rect, anchor) ==
    [color |-> color, flip_x |-> fx, flip_y |-> fy,
     custom_size |-> cs, rect |-> rect, anchor |-> anchor]

\* Sprite3d::default()
DefaultSprite ==
    Sprite3d([space |-> "srgba", rgba |-> <<1, 1, 1, 1>>], FALSE, FALSE, None, None, "Center")

AllSprite3d ==
    {Sprite3d(c, fx, fy, cs, r, a) :
        c \in Colors, fx \in BOOLEAN, fy \in BOOLEAN,
        cs \in CustomSizes, r \in Rects, a \in {"Center", "BottomRight"}}

\* The descriptor of the i-th sprite of the frame model, after examples/sprite.rs:
\* "Pokey with default size" and "Pokey with specific size" in turn.
FrameSprite3d(i) ==
    IF i % 2 = 1 THEN DefaultSprite
    ELSE [DefaultSprite EXCEPT !.custom_size = Some(<<10, 5>>)]

-----------------------------------------------------------------------------
(* Meshes *)

\* A mesh maps the names of the attributes it carries (and "INDICES") to arrays.
POSITION == "POSITION"
UV_0 == "UV_0"
NORMAL == "NORMAL"
COLOR == "COLOR"
INDICES == "INDICES"

CreateMeshNoColor ==
    [a \in {INDICES, POSITION, UV_0, NORMAL} |-> <<>>]

\* create_mesh
CreateMesh ==
    [a \in {INDICES, POSITION, UV_0, NORMAL, COLOR} |-> <<>>]

ClearMeshKeeps(mesh) == mesh

ClearMeshIndicesOnly(mesh) == [a \in DOMAIN mesh |-> IF a = INDICES THEN <<>> ELSE mesh[a]]

\* clear_mesh: every array the mesh carries is emptied, none is removed.
ClearMesh(mesh) == [a \in DOMAIN mesh |-> <<>>]

QuadIndicesOffByOne(i) == <<i + 0, i + 1, i + 2, i + 2, i + 3, i + 4>>

\* The two triangles of the quad whose first vertex is vertex i.
QuadIndices(i) == <<i + 0, i + 1, i + 2, i + 2, i + 3, i + 0>>

CornerUVsBySpriteSize(sprite, sprite_mat_size) ==
    IF IsSome(sprite.rect)
    THEN LET rect == Unwrap(sprite.rect)
             w == RectSize(rect)[1]
             h == RectSize(rect)[2]
         IN  << <<Frac(rect.min[1], w), Frac(rect.max[2], h)>>,
                <<Frac(rect.max[1], w), Frac(rect.max[2], h)>>,
                <<Frac(rect.max[1], w), Frac(rect.min[2], h)>>,
                <<Frac(rect.min[1], w), Frac(rect.min[2], h)>> >>
    ELSE << <<Frac(0, 1), Frac(1, 1)>>, <<Frac(1, 1), Frac(1, 1)>>,
            <<Frac(1, 1), Frac(0, 1)>>, <<Frac(0, 1), Frac(0, 1)>> >>

\* The four corner UVs <<bl, br, tr, tl>> before the flips.
CornerUVs(sprite, sprite_mat_size) ==
    IF IsSome(sprite.rect)
    THEN LET rect == Unwrap(sprite.rect)
             w == sprite_mat_size[1]
             h == sprite_mat_size[2]
         IN  << <<Frac(rect.min[1], w), Frac(rect.max[2], h)>>,
                <<Frac(rect.max[1], w), Frac(rect.max[2], h)>>,
                <<Frac(rect.max[1], w), Frac(rect.min[2], h)>>,
                <<Frac(rect.min[1], w), Frac(rect.min[2], h)>> >>
    ELSE << <<Frac(0, 1), Frac(1, 1)>>, <<Frac(1, 1), Frac(1, 1)>>,
            <<Frac(1, 1), Frac(0, 1)>>, <<Frac(0, 1), Frac(0, 1)>> >>

FlipXTopOnly(uv) ==
    << uv[1], uv[2], <<uv[4][1], uv[3][2]>>, <<uv[3][1], uv[4][2]>> >>

\* flip_x swaps the U of tl/tr and of bl/br.
FlipX(uv) ==
    << <<uv[2][1], uv[1][2]>>, <<uv[1][1], uv[2][2]>>,
       <<uv[4][1], uv[3][2]>>, <<uv[3][1], uv[4][2]>> >>

\* flip_y swaps the V of tl/bl and of tr/br.
FlipY(uv) ==
    << <<uv[1][1], uv[4][2]>>, <<uv[2][1], uv[3][2]>>,
       <<uv[3][1], uv[2][2]>>, <<uv[4][1], uv[1][2]>> >>

FlippedUVs(sprite, sprite_mat_size) ==
    LET uv0 == CornerUVs(sprite, sprite_mat_size)
        uv1 == IF sprite.flip_x THEN FlipX(uv0) ELSE uv0
    IN  IF sprite.flip_y THEN FlipY(uv1) ELSE uv1

CornerPositionsOffsetPlus(sprite, sprite_transf, sprite_size) ==
    LET hx == sprite_size[1]
        hy == sprite_size[2]
        a == AnchorVec2(sprite.anchor)
        offset == <<a[1] * sprite_size[1], a[2] * sprite_size[2], 0>>
    IN  <<TransformPoint(sprite_transf, Add3(<<-hx, -hy, 0>>, offset)),
          TransformPoint(sprite_transf, Add3(<<hx, -hy, 0>>, offset)),
          TransformPoint(sprite_transf, Add3(<<hx, hy, 0>>, offset)),
          TransformPoint(sprite_transf, Add3(<<-hx, hy, 0>>, offset))>>

\* The four world positions <<bl, br, tr, tl>>, in half-pixels.
CornerPositions(sprite, sprite_transf, sprite_size) ==
    LET hx == sprite_size[1]
        hy == sprite_size[2]
        a == AnchorVec2(sprite.anchor)
        offset == <<-(a[1] * sprite_size[1]), -(a[2] * sprite_size[2]), 0>>
    IN  <<TransformPoint(sprite_transf, Add3(<<-hx, -hy, 0>>, offset)),
          TransformPoint(sprite_transf, Add3(<<hx, -hy, 0>>, offset)),
          TransformPoint(sprite_transf, Add3(<<hx, hy, 0>>, offset)),
          TransformPoint(sprite_transf, Add3(<<-hx, hy, 0>>, offset))>>

\* submit_sprite: the arrays are extended one after the other; the first one the
\* mesh does not carry panics and leaves the earlier ones extended.
SubmitSpritePrepend(mesh, sprite, sprite_transf, sprite_mat_size, sprite_size) ==
    LET pos == CornerPositions(sprite, sprite_transf, sprite_size)
        norm == Normalize(Cross(Sub3(pos[2], pos[1]), Sub3(pos[4], pos[1])))
        uv == FlippedUVs(sprite, sprite_mat_size)
        color == ToLinearArray(sprite.color)
    IN  [mesh |-> [mesh EXCEPT ![POSITION] = pos \o @,
                               ![UV_0] = uv \o @,
                               ![NORMAL] = <<norm, norm, norm, norm>> \o @,
                               ![COLOR] = <<color, color, color, color>> \o @,
                               ![INDICES] = @ \o QuadIndices(Len(mesh[POSITION]))],
         panic |-> ""]

SubmitSprite(mesh, sprite, sprite_transf, sprite_mat_size, sprite_size) ==
    LET pos == CornerPositions(sprite, sprite_transf, sprite_size)
        norm == Normalize(Cross(Sub3(pos[2], pos[1]), Sub3(pos[4], pos[1])))
        uv == FlippedUVs(sprite, sprite_mat_size)
        color == ToLinearArray(sprite.color)
        i == IF POSITION \in DOMAIN mesh THEN Len(mesh[POSITION]) ELSE 0
        m1 == [mesh EXCEPT ![POSITION] = @ \o pos]
        m2 == [m1 EXCEPT ![UV_0] = @ \o uv]
        m3 == [m2 EXCEPT ![NORMAL] = @ \o <<norm, norm, norm, norm>>]
        m4 == [m3 EXCEPT ![COLOR] = @ \o <<color, color, color, color>>]
        m5 == [m4 EXCEPT ![INDICES] = @ \o QuadIndices(i)]
    IN  IF POSITION \notin DOMAIN mesh THEN [mesh |-> mesh, panic |-> "Missing mesh positions"]
        ELSE IF UV_0 \notin DOMAIN mesh THEN [mesh |-> m1, panic |-> "Missing mesh uvs"]
        ELSE IF NORMAL \notin DOMAIN mesh THEN [mesh |-> m2, panic |-> "Missing mesh normals"]
        ELSE IF COLOR \notin DOMAIN mesh THEN [mesh |-> m3, panic |-> "Missing mesh colors"]
        ELSE IF INDICES \notin DOMAIN mesh THEN [mesh |-> m4, panic |-> "Missing mesh indices"]
        ELSE [mesh |-> m5, panic |-> ""]

-----------------------------------------------------------------------------
(* MeshBatch and the capability it consults *)

MaterialsGetStale(h) == None

MaterialsGetAlways(h) == Some(h)

\* materials.get(handle): Some(material) when the material is loaded.
MaterialsGet(h) == IF h \in materials THEN Some(h) ELSE None

\* materials.contains(handle), as remove_unloaded_meshes asks it.
MaterialsContainsAlways(h) == TRUE

MaterialsContainsNever(h) == FALSE

MaterialsContains(h) == h \in materials

SizeIgnoresImages(m) == Some(ImageSize(m))

\* StandardMaterial::size: the size of the base colour texture, when it is loaded.
Size(m) == IF m \in images THEN Some(ImageSize(m)) ELSE None

SpriteSizeRectFirst(sprite, sprite_mat_size) ==
    IF IsSome(sprite.rect) THEN RectSize(Unwrap(sprite.rect))
    ELSE IF IsSome(sprite.custom_size) THEN Unwrap(sprite.custom_size)
    ELSE sprite_mat_size

\* The match on (custom_size, rect) of submit.
SpriteSize(sprite, sprite_mat_size) ==
    IF IsSome(sprite.custom_size) THEN Unwrap(sprite.custom_size)
    ELSE IF IsSome(sprite.rect) THEN RectSize(Unwrap(sprite.rect))
    ELSE sprite_mat_size

HasEntryNever(h) == FALSE

\* Whether self.meshes.entry(handle) is occupied.
HasEntry(h) == h \in DOMAIN meshes

\* The highest id in use is handed out again.
NewIdReused == IF spawned = <<>> THEN Cardinality(DOMAIN spawned) + 1 ELSE Cardinality(DOMAIN spawned)

\* The id commands.spawn reserves and the handle meshes.add returns: fresh ones.
NewId == Cardinality(DOMAIN spawned) + 1

VisibleAlways(row) == TRUE

\* sprite_vis.get()
Visible(row) == row.vis

LoopBreak(c) == Len(sprites) + 1

\* The for loop goes on to the next row, after a continue and after submit returns.
LoopNext(c) == c + 1

\* What the registry holds for the renderer: per material the entity and its mesh.
Output ==
    [m \in DOMAIN meshes |->
        [entity |-> meshes[m].entity,
         mesh |-> IF meshes[m].mesh \in DOMAIN mesh_assets
                  THEN Some(mesh_assets[meshes[m].mesh]) ELSE None]]

\* Whether the inputs let the row's size resolve: its material is loaded and
\* reports a size.
Resolvable(row) == row.mat \in materials /\ row.mat \in images

-----------------------------------------------------------------------------
(* batch_sprites, step by step *)

RunSystemSkipsPrune ==
    /\ pc = "Idle"
    /\ pc' = "Clearing"
    /\ prev_out' = IF settled THEN Some(Output) ELSE None
    /\ settled' = FALSE
    /\ recovered' = {}
    /\ UNCHANGED <<sprites, materials, images, meshes, mesh_assets, spawned,
                   despawns, cur, deferred>>

\* The schedule runs batch_sprites.
RunSystem ==
    /\ pc = "Idle"
    /\ pc' = "Pruning"
    /\ prev_out' = IF settled THEN Some(Output) ELSE None
    /\ settled' = FALSE
    /\ recovered' = {}
    /\ UNCHANGED <<sprites, materials, images, meshes, mesh_assets, spawned,
                   despawns, cur, deferred>>

\* MeshBatch::remove_unloaded_meshes.  The entry's strong mesh handle goes with
\* the entry and the despawned entity holds the only clone, so Assets<Mesh>
\* frees the mesh.
RemoveUnloadedMeshes ==
    /\ pc = "Pruning"
    /\ LET keep == {m \in DOMAIN meshes : MaterialsContains(m)}
           gone == {meshes[m].entity : m \in DOMAIN meshes \ keep}
           dropped == {meshes[m].mesh : m \in DOMAIN meshes \ keep}
       IN  /\ meshes' = [m \in keep |-> meshes[m]]
           /\ despawns' = [e \in DOMAIN despawns |->
                              IF e \in gone THEN despawns[e] + 1 ELSE despawns[e]]
           /\ mesh_assets' = [h \in DOMAIN mesh_assets \ dropped |-> mesh_assets[h]]
    /\ pc' = "Clearing"
    /\ UNCHANGED <<sprites, materials, images, spawned, cur, settled, prev_out,
                   deferred, recovered>>

\* MeshBatch::clear_meshes
ClearMeshes ==
    /\ pc = "Clearing"
    /\ IF \E m \in DOMAIN meshes : meshes[m].mesh \notin DOMAIN mesh_assets
       THEN /\ pc' = "Panicked"
            /\ UNCHANGED <<mesh_assets, cur>>
       ELSE /\ mesh_assets' =
                  [h \in DOMAIN mesh_assets |->
                      IF \E m \in DOMAIN meshes : meshes[m].mesh = h
                      THEN ClearMesh(mesh_assets[h]) ELSE mesh_assets[h]]
            /\ pc' = "Appending"
            /\ cur' = 1
    /\ UNCHANGED <<sprites, materials, images, meshes, spawned, despawns,
                   settled, prev_out, deferred, recovered>>

\* MeshBatch::submit
Submit(sprite, sprite_transf, sprite_mat_handle) ==
    IF ~IsSome(MaterialsGet(sprite_mat_handle)) \/ ~IsSome(Size(sprite_mat_handle))
    THEN /\ pc' = "Appending"
         /\ UNCHANGED <<meshes, mesh_assets, spawned, despawns>>
    ELSE LET sprite_mat_size == Unwrap(Size(sprite_mat_handle))
             sprite_size == SpriteSize(sprite, sprite_mat_size)
             has == HasEntry(sprite_mat_handle)
             entry == IF has THEN meshes[sprite_mat_handle]
                      ELSE [entity |-> NewId, mesh |-> NewId]
             assets == IF has THEN mesh_assets
                       ELSE [h \in DOMAIN mesh_assets \cup {entry.mesh} |->
                               IF h = entry.mesh THEN CreateMesh ELSE mesh_assets[h]]
         IN  /\ meshes' = [m \in DOMAIN meshes \cup {sprite_mat_handle} |->
                             IF m = sprite_mat_handle THEN entry ELSE meshes[m]]
             /\ spawned' = IF has THEN spawned
                           ELSE [e \in DOMAIN spawned \cup {entry.entity} |->
                                   IF e = entry.entity THEN sprite_mat_handle
                                   ELSE spawned[e]]
             /\ despawns' = IF has THEN despawns
                            ELSE [e \in DOMAIN despawns \cup {entry.entity} |->
                                    IF e = entry.entity THEN 0 ELSE despawns[e]]
             /\ IF entry.mesh \notin DOMAIN assets
                THEN /\ mesh_assets' = assets
                     /\ pc' = "Panicked"
                ELSE LET r == SubmitSprite(assets[entry.mesh], sprite, sprite_transf,
                                           sprite_mat_size, sprite_size)
                     IN  /\ mesh_assets' = [assets EXCEPT ![entry.mesh] = r.mesh]
                         /\ pc' = IF r.panic = "" THEN "Appending" ELSE "Panicked"

\* One iteration of the for loop over the query.
LoopStep ==
    /\ pc = "Appending"
    /\ cur <= Len(sprites)
    /\ LET row == sprites[cur]
       IN  /\ IF ~Visible(row)
              THEN /\ pc' = "Appending"
                   /\ UNCHANGED <<meshes, mesh_assets, spawned, despawns>>
              ELSE Submit(row.sprite, row.transf, row.mat)
           /\ deferred' = IF ~row.vis THEN deferred
                          ELSE IF Resolvable(row) THEN deferred \ {cur}
                          ELSE deferred \cup {cur}
           /\ recovered' = IF row.vis /\ Resolvable(row) /\ cur \in deferred
                           THEN recovered \cup {cur} ELSE recovered
    /\ cur' = LoopNext(cur)
    /\ UNCHANGED <<sprites, materials, images, settled, prev_out>>

\* The loop is exhausted and batch_sprites returns.
EndLoop ==
    /\ pc = "Appending"
    /\ cur > Len(sprites)
    /\ pc' = "Idle"
    /\ settled' = TRUE
    /\ UNCHANGED <<sprites, materials, images, meshes, mesh_assets, spawned,
                   despawns, cur, prev_out, deferred, recovered>>

-----------------------------------------------------------------------------
(* The world between two runs of the system *)

Unsettle ==
    /\ settled' = FALSE
    /\ prev_out' = None
    /\ UNCHANGED <<meshes, mesh_assets, spawned, despawns, pc, cur, deferred, recovered>>

LoadMaterial ==
    /\ pc = "Idle"
    /\ \E m \in Mats \ materials : materials' = materials \cup {m}
    /\ Unsettle
    /\ UNCHANGED <<sprites, images>>

UnloadMaterial ==
    /\ pc = "Idle"
    /\ Cardinality(DOMAIN spawned) < MaxSpawned
    /\ \E m \in materials : materials' = materials \ {m}
    /\ Unsettle
    /\ UNCHANGED <<sprites, images>>

LoadImage ==
    /\ pc = "Idle"
    /\ \E m \in Mats \ images : images' = images \cup {m}
    /\ Unsettle
    /\ UNCHANGED <<sprites, materials>>

UnloadImage ==
    /\ pc = "Idle"
    /\ \E m \in images : images' = images \ {m}
    /\ Unsettle
    /\ UNCHANGED <<sprites, materials>>

\* Visibility propagation changes a row's InheritedVisibility.
SetVisibility ==
    /\ pc = "Idle"
    /\ \E i \in 1..Len(sprites) : sprites' = [sprites EXCEPT ![i].vis = ~@]
    /\ Unsettle
    /\ UNCHANGED <<materials, images>>

-----------------------------------------------------------------------------
(* Specifications *)

\* The rows of n sprites, spread along X as in examples/sprite.rs.
Rows(n) ==
    {[i \in 1..n |-> [sprite |-> FrameSprite3d(i), transf |-> FromXYZ(32 * (i - 1), 0, 0),
                      mat |-> c[i].mat, vis |-> c[i].vis]] :
        c \in [1..n -> [mat : Mats, vis : BOOLEAN]]}

EmptyRegistry ==
    /\ meshes = <<>>
    /\ mesh_assets = <<>>
    /\ spawned = <<>>
    /\ despawns = <<>>
    /\ pc = "Idle"
    /\ cur = 1
    /\ settled = FALSE
    /\ prev_out = None
    /\ deferred = {}
    /\ recovered = {}

\* MeshBatch::default() in a world of up to MaxSprites sprites, nothing loaded yet.
Init ==
    /\ \E n \in 0..MaxSprites : sprites \in Rows(n)
    /\ materials = {}
    /\ images = {}
    /\ EmptyRegistry

Pipeline ==
    \/ RunSystem
    \/ RemoveUnloadedMeshes
    \/ ClearMeshes
    \/ LoopStep
    \/ EndLoop

Next ==
    \/ Pipeline
    \/ LoadMaterial
    \/ UnloadMaterial
    \/ LoadImage
    \/ UnloadImage
    \/ SetVisibility

Spec == Init /\ [][Next]_vars

\* One visible sprite of any descriptor and pose, batched frame after frame.
InitQuad ==
    /\ \E s \in AllSprite3d, t \in Poses, m \in Mats :
          sprites = <<[sprite |-> s, transf |-> t, mat |-> m, vis |-> TRUE]>>
    /\ materials \in {{}, Mats}
    /\ images \in {{}, Mats}
    /\ EmptyRegistry

NextQuad ==
    \/ RunSystem
    \/ RemoveUnloadedMeshes
    \/ ClearMeshes
    \/ LoopStep
    \/ EndLoop

SpecQuad == InitQuad /\ [][NextQuad]_vars

-----------------------------------------------------------------------------
(* Vocabulary of the properties *)

\* The mesh of material m's entry.
MeshOf(m) == mesh_assets[meshes[m].mesh]

\* Number of quads in material m's buffer; none without an entry.
QuadCount(m) == IF m \in DOMAIN meshes THEN Len(MeshOf(m)[POSITION]) \div 4 ELSE 0

\* Rows handled so far in the running frame, or in the frame just completed.
Handled == IF pc = "Appending" THEN cur - 1 ELSE Len(sprites)

\* The buffers show a frame's appends: the loop is running, or a frame has
\* completed and no input has changed since.
InFrame == pc = "Appending" \/ (pc = "Idle" /\ settled)

AfterCycle == pc = "Idle" /\ settled

\* Rows among the first n that are visible, resolvable and use material m.
Contributing(m, n) ==
    {i \in 1..n : sprites[i].vis /\ Resolvable(sprites[i]) /\ sprites[i].mat = m}

\* The size the spec gives a sprite: custom_size, else the rect's, else native.
ClaimedSize(sprite, native) ==
    IF sprite.custom_size /= None THEN sprite.custom_size[1]
    ELSE IF sprite.rect /= None
         THEN <<sprite.rect[1].max[1] - sprite.rect[1].min[1],
                sprite.rect[1].max[2] - sprite.rect[1].min[2]>>
         ELSE native

\* The buffer that appending the contributing rows among the first n, in order,
\* to an empty mesh gives.
RECURSIVE ExpectedMesh(_, _)
ExpectedMesh(m, n) ==
    IF n = 0 THEN CreateMesh
    ELSE IF n \in Contributing(m, n)
         THEN SubmitSprite(ExpectedMesh(m, n - 1), sprites[n].sprite, sprites[n].transf,
                           ImageSize(m), ClaimedSize(sprites[n].sprite, ImageSize(m))).mesh
         ELSE ExpectedMesh(m, n - 1)

-----------------------------------------------------------------------------
(* C1: in every state every entry's position, UV, normal and colour arrays   *)
(* have one length, a multiple of 4; the index array holds 6 indices per     *)
(* quad; every index is below the vertex count, and the indices of quad N    *)
(* lie in 4N .. 4N+3.                                                        *)
C1_BuffersWellFormed ==
    \A m \in DOMAIN meshes :
        LET mesh == MeshOf(m)
            n == Len(mesh[POSITION])
            idx == mesh[INDICES]
        IN  /\ Len(mesh[UV_0]) = n
            /\ Len(mesh[NORMAL]) = n
            /\ Len(mesh[COLOR]) = n
            /\ n % 4 = 0
            /\ Len(idx) % 6 = 0
            /\ Len(idx) = 6 * (n \div 4)
            /\ \A k \in 1..Len(idx) :
                  /\ idx[k] < n
                  /\ idx[k] >= 4 * ((k - 1) \div 6)
                  /\ idx[k] <= 4 * ((k - 1) \div 6) + 3

\* A cycle has completed with two quads in one buffer.
C1_Witness ==
    /\ AfterCycle
    /\ \E m \in DOMAIN meshes : Len(MeshOf(m)[POSITION]) = 8 /\ Len(MeshOf(m)[INDICES]) = 12

-----------------------------------------------------------------------------
(* C2 (under SpecQuad): whenever the sprite's quad has been appended, its    *)
(* corners are those of a quad of the size custom_size if present, else the  *)
(* width and height of rect if present, else the material's pixel size; for  *)
(* a pose that only translates, the quad is that many pixels wide and high.  *)
C2_EffectiveSize ==
    AfterCycle =>
        \A m \in DOMAIN meshes :
            Len(MeshOf(m)[POSITION]) = 4 /\ sprites[1].mat = m =>
                LET row == sprites[1]
                    size == ClaimedSize(row.sprite, ImageSize(m))
                    pos == MeshOf(m)[POSITION]
                IN  /\ pos = CornerPositions(row.sprite, row.transf, size)
                    /\ row.transf.matrix = Identity3 =>
                          /\ pos[2][1] - pos[1][1] = 2 * size[1]
                          /\ pos[4][2] - pos[1][2] = 2 * size[2]

\* A quad was appended for a sprite with both custom_size and rect, unrotated.
C2_Witness ==
    /\ AfterCycle
    /\ sprites[1].sprite.custom_size = Some(<<10, 5>>)
    /\ sprites[1].sprite.rect /= None
    /\ sprites[1].transf.matrix = Identity3
    /\ sprites[1].mat \in DOMAIN meshes
    /\ Len(MeshOf(sprites[1].mat)[POSITION]) = 4
    /\ MeshOf(sprites[1].mat)[POSITION][2][1] - MeshOf(sprites[1].mat)[POSITION][1][1] = 20

-----------------------------------------------------------------------------
(* C3 as stated (under SpecQuad): after a cycle, a visible sprite of a       *)
(* loaded material has no quad exactly when the material reports no size     *)
(* and the descriptor has neither custom_size nor rect.                      *)
C3_SkipOnlyWhenNoSource ==
    AfterCycle =>
        LET row == sprites[1]
        IN  row.vis /\ row.mat \in materials =>
                (QuadCount(row.mat) = 0 <=>
                    /\ row.mat \notin images
                    /\ row.sprite.custom_size = None
                    /\ row.sprite.rect = None)

(* C3 amended (under SpecQuad): after a cycle, a visible sprite has no quad  *)
(* exactly when its material is not loaded or reports no size, whatever      *)
(* custom_size and rect are; otherwise it has exactly one.                   *)
C3_SkipWithoutNativeSize ==
    AfterCycle =>
        LET row == sprites[1]
        IN  row.vis =>
                /\ QuadCount(row.mat) = 0 <=> (row.mat \notin materials \/ row.mat \notin images)
                /\ QuadCount(row.mat) <= 1

\* A sprite with custom_size and rect was skipped: its loaded material has no size.
C3_Witness ==
    /\ AfterCycle
    /\ sprites[1].vis
    /\ sprites[1].mat \in materials
    /\ sprites[1].mat \notin images
    /\ sprites[1].sprite.custom_size /= None
    /\ sprites[1].sprite.rect /= None
    /\ QuadCount(sprites[1].mat) = 0

-----------------------------------------------------------------------------
(* C4: in a frame in which a visible sprite has been skipped (its material   *)
(* unloaded or without a size), the pass has not aborted and every buffer    *)
(* holds exactly one quad per visible resolvable sprite handled so far, the  *)
(* ones before the skipped sprite and the ones after it: the skip added      *)
(* nothing and dropped nothing.                                              *)
C4_SkipKeepsFrame ==
    /\ pc /= "Panicked"
    /\ InFrame =>
          \A j \in 1..Handled :
              sprites[j].vis /\ ~Resolvable(sprites[j]) =>
                  \A m \in Mats : QuadCount(m) = Cardinality(Contributing(m, Handled))

\* A frame completed in which the first sprite was skipped and the second appended.
C4_Witness ==
    /\ AfterCycle
    /\ Len(sprites) = 2
    /\ sprites[1].vis /\ ~Resolvable(sprites[1])
    /\ sprites[2].vis /\ Resolvable(sprites[2])
    /\ QuadCount(sprites[2].mat) = 1
    /\ QuadCount(sprites[1].mat) = 0

-----------------------------------------------------------------------------
(* C5: no entity is ever sent more than one despawn, and only entities the   *)
(* registry spawned are; a prune step removes exactly the entries whose      *)
(* material is not loaded, sends each of their entities its one despawn, and *)
(* leaves every other entry, its entity, its mesh and every other entity's   *)
(* despawn count as they were.                                               *)
C5_PruneOnce ==
    [][/\ \A e \in DOMAIN despawns' : despawns'[e] <= 1 /\ e \in DOMAIN spawned'
       /\ pc = "Pruning" =>
             LET stale == {m \in DOMAIN meshes : m \notin materials}
                 gone == {meshes[m].entity : m \in stale}
             IN  /\ DOMAIN meshes' = DOMAIN meshes \ stale
                 /\ \A e \in gone : despawns[e] = 0 /\ despawns'[e] = 1
                 /\ \A e \in DOMAIN despawns \ gone : despawns'[e] = despawns[e]
                 /\ spawned' = spawned
                 /\ \A m \in DOMAIN meshes \ stale :
                       /\ meshes'[m] = meshes[m]
                       /\ meshes[m].mesh \in DOMAIN mesh_assets'
                       /\ mesh_assets'[meshes[m].mesh] = mesh_assets[meshes[m].mesh]
      ]_vars

\* A prune has removed the entry of an unloaded material and kept another one.
C5_Witness ==
    /\ pc = "Clearing"
    /\ \E e \in DOMAIN spawned :
          /\ despawns[e] = 1
          /\ spawned[e] \notin materials
          /\ spawned[e] \notin DOMAIN meshes
    /\ DOMAIN meshes /= {}

-----------------------------------------------------------------------------
(* C6: each material has at most one live render entity, the one of its      *)
(* entry; an entry is never replaced: from one step to the next it keeps its *)
(* entity and mesh handle, or a prune removes it because its material is not *)
(* loaded; and an entity is spawned only for a material that has no entry.   *)
C6_OneEntryStableId ==
    [][/\ \A m \in Mats :
             Cardinality({e \in DOMAIN spawned' : spawned'[e] = m /\ despawns'[e] = 0}) <= 1
       /\ \A m \in DOMAIN meshes' :
             spawned'[meshes'[m].entity] = m /\ despawns'[meshes'[m].entity] = 0
       /\ \A m \in DOMAIN meshes :
             \/ m \in DOMAIN meshes' /\ meshes'[m] = meshes[m]
             \/ pc = "Pruning" /\ m \notin materials
       /\ \A e \in DOMAIN spawned' \ DOMAIN spawned : spawned'[e] \notin DOMAIN meshes
      ]_vars

\* Two cycles have run over a loaded material whose entry holds geometry, after
\* another entity had already been spawned and despawned.
C6_Witness ==
    /\ AfterCycle
    /\ prev_out /= None
    /\ \E m \in DOMAIN meshes : QuadCount(m) >= 1 /\ m \in DOMAIN prev_out[1]
    /\ \E e \in DOMAIN spawned : despawns[e] = 1

-----------------------------------------------------------------------------
(* C7: clear_meshes empties every array of every entry and changes no entry; *)
(* when a cycle completes, each entry's buffer is exactly the quads of the   *)
(* current frame's visible, resolvable sprites of its material, in order:    *)
(* 4 vertices and 6 indices per such sprite and nothing else.                *)
C7_RebuiltFromScratch ==
    /\ [][pc = "Clearing" =>
             /\ meshes' = meshes
             /\ \A m \in DOMAIN meshes' :
                   \A a \in {POSITION, UV_0, NORMAL, COLOR, INDICES} :
                       mesh_assets'[meshes'[m].mesh][a] = <<>>]_vars
    /\ [](AfterCycle =>
             \A m \in DOMAIN meshes :
                 LET n == Cardinality(Contributing(m, Len(sprites)))
                 IN  /\ MeshOf(m) = ExpectedMesh(m, Len(sprites))
                     /\ Len(MeshOf(m)[POSITION]) = 4 * n
                     /\ Len(MeshOf(m)[INDICES]) = 6 * n)

\* A cycle completed with an entry left empty (the quad that created it in an
\* earlier frame is gone) next to an entry holding this frame's quad.
C7_Witness ==
    /\ AfterCycle
    /\ \E m \in DOMAIN meshes : QuadCount(m) = 0
    /\ \E m \in DOMAIN meshes : QuadCount(m) = 1

-----------------------------------------------------------------------------
(* C8: the loop iteration of a sprite that is not visible changes neither    *)
(* the entries nor any mesh nor the spawned or despawned entities.           *)
C8_InvisibleNoEffect ==
    [][(pc = "Appending" /\ cur <= Len(sprites) /\ ~sprites[cur].vis) =>
          UNCHANGED <<meshes, mesh_assets, spawned, despawns>>]_vars

\* An invisible sprite whose material is loaded, sized and without entry has
\* just been passed over.
C8_Witness ==
    /\ pc = "Appending"
    /\ cur > 1
    /\ ~sprites[cur - 1].vis
    /\ Resolvable(sprites[cur - 1])
    /\ sprites[cur - 1].mat \notin DOMAIN meshes

-----------------------------------------------------------------------------
(* C9: when a cycle completes over the inputs the cycle before it completed  *)
(* over, the registry's output (entries, entities, mesh contents) is the     *)
(* output of the cycle before.                                               *)
C9_SameInputsSameBuffers ==
    (AfterCycle /\ prev_out /= None) => Output = prev_out[1]

\* Two cycles have run over unchanged inputs with two quads in a buffer.
C9_Witness ==
    /\ AfterCycle
    /\ prev_out /= None
    /\ \E m \in DOMAIN meshes : QuadCount(m) = 2

-----------------------------------------------------------------------------
(* C10: a sprite whose latest visible submission was skipped and that is     *)
(* visible with its material loaded and sized in the running frame has its   *)
(* quad in its material's buffer, at the place its rank among the            *)
(* contributing sprites gives it.                                            *)
C10_RetriedNextFrame ==
    InFrame =>
        \A i \in recovered :
            LET row == sprites[i]
                k == Cardinality(Contributing(row.mat, i - 1))
            IN  /\ row.mat \in DOMAIN meshes
                /\ QuadCount(row.mat) >= k + 1
                /\ SubSeq(MeshOf(row.mat)[POSITION], 4 * k + 1, 4 * k + 4)
                     = CornerPositions(row.sprite, row.transf,
                                       ClaimedSize(row.sprite, ImageSize(row.mat)))

\* A cycle completed in which a sprite skipped before got its quad.
C10_Witness ==
    /\ AfterCycle
    /\ recovered /= {}

-----------------------------------------------------------------------------
(* The frame model with its scheduling: batch_sprites is a synchronous       *)
(* system of PostUpdate, so once it is called its body runs on: a step of    *)
(* the body is enabled in every state inside a tick and changes <<pc, cur>>. *)
(* Nothing forces the schedule to start another tick.                        *)

InTick == pc \in {"Pruning", "Clearing", "Appending"}

TickStep ==
    /\ InTick
    /\ pc' \in {"Clearing", "Appending", "Idle", "Panicked"}
    /\ cur' \in 1..(Len(sprites) + 1)

\* Every texture is loaded; materials load and unload between the ticks.
InitLive ==
    /\ \E n \in 0..MaxSprites : sprites \in Rows(n)
    /\ materials = {}
    /\ images = Mats
    /\ EmptyRegistry

NextLive ==
    \/ Pipeline
    \/ LoadMaterial
    \/ UnloadMaterial
    \/ SetVisibility

SpecLive == InitLive /\ [][NextLive]_vars /\ WF_<<pc, cur>>(TickStep)

-----------------------------------------------------------------------------
(* C11: a tick goes Idle, Pruning, Clearing, Appending, Idle and leaves the  *)
(* loop only when every row is handled; entries are removed only by the      *)
(* step out of Pruning, buffers shrink only by the step out of Clearing,     *)
(* entities are spawned and buffers grow only by steps out of Appending (so  *)
(* prune runs once and first, clear once after it and before any submit);    *)
(* and every tick that has started returns to Idle.                          *)
C11_TickOrder ==
    /\ [][/\ pc = "Idle" => pc' \in {"Idle", "Pruning"}
          /\ pc = "Pruning" => pc' = "Clearing"
          /\ pc = "Clearing" => pc' = "Appending" /\ cur' = 1
          /\ pc = "Appending" => pc' \in {"Appending", "Idle"}
          /\ (pc = "Appending" /\ pc' = "Idle") => cur > Len(sprites)
          /\ (pc = "Appending" /\ pc' = "Appending") => cur' = cur + 1
          /\ DOMAIN meshes \ DOMAIN meshes' /= {} => pc = "Pruning"
          /\ despawns' /= despawns /\ DOMAIN despawns' = DOMAIN despawns => pc = "Pruning"
          /\ (\E h \in DOMAIN mesh_assets \cap DOMAIN mesh_assets' :
                 Len(mesh_assets'[h][POSITION]) < Len(mesh_assets[h][POSITION]))
                => pc = "Clearing"
          /\ (\/ spawned' /= spawned
              \/ \E h \in DOMAIN mesh_assets \cap DOMAIN mesh_assets' :
                    Len(mesh_assets'[h][POSITION]) > Len(mesh_assets[h][POSITION]))
                => pc = "Appending"
         ]_vars
    /\ (pc /= "Idle") ~> (pc = "Idle")

\* A tick that pruned an entry and appended a quad has returned to Idle.
C11_Witness ==
    /\ AfterCycle
    /\ \E e \in DOMAIN spawned : despawns[e] = 1
    /\ \E m \in DOMAIN meshes : QuadCount(m) = 1
    /\ Len(sprites) = 2

-----------------------------------------------------------------------------
(* The mesh store is a shared resource: Assets<Mesh> can be written by any   *)
(* other system between two runs. This specification lets one array of one   *)
(* registry mesh be removed there, with every material and texture loaded.   *)

Attributes == DOMAIN CreateMesh

\* Another system removes an attribute or the indices of a mesh of the store.
DamageMesh ==
    /\ pc = "Idle"
    /\ \A h \in DOMAIN mesh_assets : DOMAIN mesh_assets[h] = Attributes
    /\ \E h \in DOMAIN mesh_assets, a \in Attributes :
          mesh_assets' = [mesh_assets EXCEPT
                             ![h] = [b \in Attributes \ {a} |-> mesh_assets[h][b]]]
    /\ settled' = FALSE
    /\ prev_out' = None
    /\ UNCHANGED <<sprites, materials, images, meshes, spawned, despawns, pc, cur,
                   deferred, recovered>>

InitDamaged ==
    /\ \E n \in 1..MaxSprites : sprites \in Rows(n)
    /\ materials = Mats
    /\ images = Mats
    /\ EmptyRegistry

NextDamaged ==
    \/ Pipeline
    \/ DamageMesh
    \/ SetVisibility

SpecDamaged == InitDamaged /\ [][NextDamaged]_vars

-----------------------------------------------------------------------------
(* C12: when an append meets a mesh that lacks an attribute or its indices,  *)
(* the pass aborts, and the aborted pass leaves no partially appended quad:  *)
(* the attribute arrays the mesh still carries have equal lengths.           *)
C12_AbortLeavesNoPartialQuad ==
    pc = "Panicked" =>
        \A h \in DOMAIN mesh_assets :
            \A a, b \in DOMAIN mesh_assets[h] \ {INDICES} :
                Len(mesh_assets[h][a]) = Len(mesh_assets[h][b])

-----------------------------------------------------------------------------
\* The loop is about to submit row cur: a visible row of a loaded material.
SubmitOfLoaded ==
    /\ pc = "Appending"
    /\ cur <= Len(sprites)
    /\ sprites[cur].vis
    /\ sprites[cur].mat \in materials

(* C13 as stated: after any submit for a loaded material an entry for that   *)
(* material exists, also when the size did not resolve and the quad was      *)
(* skipped.                                                                  *)
C13_EntryAfterAnySubmit ==
    [][SubmitOfLoaded => sprites[cur].mat \in DOMAIN meshes']_vars

(* C13, amended: submit creates the entry only after the native size has     *)
(* resolved. A submit for a loaded material without a native size leaves the *)
(* registry, the mesh store and the spawned entities as they were; one with  *)
(* a native size and no entry yet creates exactly one entity and one mesh    *)
(* with all five arrays, holding the one quad just appended.                 *)
C13_EntryAfterSizeResolves ==
    [][SubmitOfLoaded =>
          LET m == sprites[cur].mat
          IN  IF m \notin images
              THEN /\ meshes' = meshes
                   /\ mesh_assets' = mesh_assets
                   /\ spawned' = spawned
              ELSE /\ m \in DOMAIN meshes'
                   /\ m \notin DOMAIN meshes =>
                         /\ Cardinality(DOMAIN spawned') = Cardinality(DOMAIN spawned) + 1
                         /\ Cardinality(DOMAIN mesh_assets') = Cardinality(DOMAIN mesh_assets) + 1
                         /\ meshes'[m].entity \notin DOMAIN spawned
                         /\ meshes'[m].mesh \notin DOMAIN mesh_assets
                         /\ spawned'[meshes'[m].entity] = m
                         /\ DOMAIN mesh_assets'[meshes'[m].mesh] = Attributes
                         /\ Len(mesh_assets'[meshes'[m].mesh][POSITION]) = 4
                         /\ \A k \in DOMAIN meshes : meshes'[k] = meshes[k]
    ]_vars

\* Both cases have happened in one pass: row 1 was submitted for a loaded
\* material without a native size and left no entry, row 2 created one.
C13_Witness ==
    /\ pc = "Appending"
    /\ cur = 3
    /\ sprites[1].vis /\ sprites[1].mat \in materials \ images
    /\ sprites[1].mat \notin DOMAIN meshes
    /\ sprites[2].vis /\ sprites[2].mat \in materials \cap images
    /\ QuadCount(sprites[2].mat) = 1
    /\ Cardinality(DOMAIN spawned) = 1

-----------------------------------------------------------------------------
(* C14: no entry of a material outside the loaded set receives geometry.     *)
(* From the prune of a tick to the end of its cycle every entry's material   *)
(* is loaded, and a step that makes a buffer grow or creates an entry does   *)
(* so for a loaded material only.                                            *)
C14_OnlyLoadedEntriesFed ==
    /\ []((pc \in {"Clearing", "Appending"} \/ AfterCycle) => DOMAIN meshes \subseteq materials)
    /\ [][\A m \in DOMAIN meshes' :
             (\/ m \notin DOMAIN meshes
              \/ Len(mesh_assets'[meshes'[m].mesh][POSITION]) > Len(MeshOf(m)[POSITION]))
                => m \in materials]_vars

\* A sprite of an unloaded material was passed over while a stale entry of
\* that material had been pruned in this tick and another material was fed.
C14_Witness ==
    /\ AfterCycle
    /\ \E i \in 1..Len(sprites) :
          /\ sprites[i].vis
          /\ sprites[i].mat \notin materials
          /\ sprites[i].mat \notin DOMAIN meshes
          /\ \E e \in DOMAIN spawned : spawned[e] = sprites[i].mat /\ despawns[e] = 1
    /\ \E m \in DOMAIN meshes : QuadCount(m) = 1 /\ m \in materials

-----------------------------------------------------------------------------
(* One more sprite than the frame model has, everything loaded, so that a    *)
(* sprite of another material can sit between two sprites of one material.   *)

InitOrder ==
    /\ sprites \in Rows(MaxSprites + 1)
    /\ materials = Mats
    /\ images = Mats
    /\ EmptyRegistry

NextOrder ==
    \/ Pipeline
    \/ SetVisibility

SpecOrder == InitOrder /\ [][NextOrder]_vars

\* The four corners row i's quad has; the rows differ in X, so they name the row.
RowCorners(i) ==
    CornerPositions(sprites[i].sprite, sprites[i].transf,
                    ClaimedSize(sprites[i].sprite, ImageSize(sprites[i].mat)))

\* The quad indices of material m's buffer at which row i's corners are found.
QuadIndexOf(m, i) ==
    {k \in 0..(QuadCount(m) - 1) :
        SubSeq(MeshOf(m)[POSITION], 4 * k + 1, 4 * k + 4) = RowCorners(i)}

(* C15: in a frame, the quad of a handled visible resolvable row sits in its *)
(* material's buffer at the quad index that counts the earlier visible       *)
(* resolvable rows of the same material, whatever rows of other materials    *)
(* lie between; so of two such rows of one material the earlier has the      *)
(* lower quad index.                                                         *)
C15_AppendedInIterationOrder ==
    InFrame =>
        \A m \in Mats :
            /\ \A a \in Contributing(m, Handled) :
                  QuadIndexOf(m, a) = {Cardinality(Contributing(m, a - 1))}
            /\ \A a, b \in Contributing(m, Handled) :
                  a < b => \A ka \in QuadIndexOf(m, a), kb \in QuadIndexOf(m, b) : ka < kb

\* Rows 1 and 3 share a material, row 2 of the other material lies between.
C15_Witness ==
    /\ AfterCycle
    /\ \A i \in 1..3 : sprites[i].vis
    /\ sprites[1].mat = sprites[3].mat
    /\ sprites[2].mat /= sprites[1].mat
    /\ QuadIndexOf(sprites[1].mat, 1) = {0}
    /\ QuadIndexOf(sprites[1].mat, 3) = {1}
    /\ QuadIndexOf(sprites[2].mat, 2) = {0}

-----------------------------------------------------------------------------
\* The entities spawned and not despawned: the render resources alive.
LiveEntities == {e \in DOMAIN spawned : despawns[e] = 0}

(* C16 as stated, its count: the number of entries never exceeds the number  *)
(* of loaded materials.                                                      *)
C16_NeverMoreEntriesThanLoaded ==
    Cardinality(DOMAIN meshes) <= Cardinality(materials)

(* C16, amended: an entry leaves the registry only in the prune step and     *)
(* only when its material is not loaded; an entry that stays keeps its       *)
(* entity and mesh, and after a cycle in which no visible resolvable sprite  *)
(* uses its material its arrays are empty. From the prune of a tick until    *)
(* the inputs change the entries are no more than the loaded materials;      *)
(* at all times the live render resources are exactly the entries' entities, *)
(* at most one per material, whatever the number of sprites.                 *)
C16_DestroyedOnlyByPrune ==
    /\ [][\A m \in DOMAIN meshes :
             /\ m \notin DOMAIN meshes' => pc = "Pruning" /\ m \notin materials
             /\ m \in DOMAIN meshes' => meshes'[m] = meshes[m]]_vars
    /\ [](AfterCycle =>
             \A m \in DOMAIN meshes :
                 Contributing(m, Len(sprites)) = {} =>
                     \A a \in Attributes : MeshOf(m)[a] = <<>>)
    /\ []((pc \in {"Clearing", "Appending"} \/ AfterCycle) =>
             Cardinality(DOMAIN meshes) <= Cardinality(materials))
    /\ [](/\ LiveEntities = {meshes[m].entity : m \in DOMAIN meshes}
          /\ \A m, k \in DOMAIN meshes : meshes[m].entity = meshes[k].entity => m = k
          /\ Cardinality(LiveEntities) <= Cardinality(Mats))

\* A cycle has completed in which no visible sprite uses a loaded material
\* whose entry, made in an earlier frame, is still there and empty.
C16_Witness ==
    /\ AfterCycle
    /\ Len(sprites) = 2
    /\ \E m \in DOMAIN meshes :
          /\ m \in materials
          /\ \A i \in 1..Len(sprites) : sprites[i].mat = m => ~sprites[i].vis
          /\ QuadCount(m) = 0
          /\ meshes[m].entity \in LiveEntities

-----------------------------------------------------------------------------
(* Vocabulary of the quad properties: corners are listed <<BL, BR, TR, TL>>, *)
(* a UV component is a fraction <<num, den>> in lowest terms, a position is  *)
(* in half-pixels.                                                           *)

\* The one row of the quad model and the buffer its quad went to.
TheSprite == sprites[1].sprite
ThePose == sprites[1].transf
TheMat == sprites[1].mat
QuadAppended == Len(sprites) = 1 /\ QuadCount(TheMat) = 1

\* The UVs the spec assigns before the flips, from the rect and native (W, H).
ClaimedBaseUVs(sprite, native) ==
    IF sprite.rect = None
    THEN << <<Frac(0, 1), Frac(1, 1)>>, <<Frac(1, 1), Frac(1, 1)>>,
            <<Frac(1, 1), Frac(0, 1)>>, <<Frac(0, 1), Frac(0, 1)>> >>
    ELSE LET min == sprite.rect[1].min
             max == sprite.rect[1].max
         IN  << <<Frac(min[1], native[1]), Frac(max[2], native[2])>>,
                <<Frac(max[1], native[1]), Frac(max[2], native[2])>>,
                <<Frac(max[1], native[1]), Frac(min[2], native[2])>>,
                <<Frac(min[1], native[1]), Frac(min[2], native[2])>> >>

\* The corner each corner exchanges U with (BL<->BR, TR<->TL) and V with
\* (BL<->TL, BR<->TR).
UPartner == <<2, 1, 4, 3>>
VPartner == <<4, 3, 2, 1>>

\* The corners before the pose for size S and doubled anchor A: +-S/2 shifted
\* by O = -A * S, Z = 0.
ClaimedLocalCorners(S, A) ==
    << <<-S[1] - A[1] * S[1], -S[2] - A[2] * S[2], 0>>,
       << S[1] - A[1] * S[1], -S[2] - A[2] * S[2], 0>>,
       << S[1] - A[1] * S[1],  S[2] - A[2] * S[2], 0>>,
       <<-S[1] - A[1] * S[1],  S[2] - A[2] * S[2], 0>> >>

ClaimedCorners(sprite, pose, native) ==
    LET local == ClaimedLocalCorners(ClaimedSize(sprite, native), AnchorVec2(sprite.anchor))
    IN  [k \in 1..4 |-> TransformPoint(pose, local[k])]

-----------------------------------------------------------------------------
(* C17: the quad's UVs are the rect's (or the defaults) with the U of each   *)
(* corner taken from its left/right partner when flip_x is set and the V     *)
(* from its top/bottom partner when flip_y is set, each flag on its own      *)
(* axis; with no rect and flip_x the U are BL 1, BR 0, TR 0, TL 1; the       *)
(* positions are those of the unflipped quad.                                *)
C17_FlipsExchangeUVs ==
    QuadAppended =>
        LET base == ClaimedBaseUVs(TheSprite, ImageSize(TheMat))
            uv == MeshOf(TheMat)[UV_0]
        IN  /\ \A k \in 1..4 :
                  /\ uv[k][1] = base[IF TheSprite.flip_x THEN UPartner[k] ELSE k][1]
                  /\ uv[k][2] = base[IF TheSprite.flip_y THEN VPartner[k] ELSE k][2]
            /\ (TheSprite.rect = None /\ TheSprite.flip_x) =>
                  <<uv[1][1], uv[2][1], uv[3][1], uv[4][1]>>
                      = <<Frac(1, 1), Frac(0, 1), Frac(0, 1), Frac(1, 1)>>
            /\ MeshOf(TheMat)[POSITION]
                  = ClaimedCorners(TheSprite, ThePose, ImageSize(TheMat))

\* A cropped sprite flipped on both axes has been appended.
C17_Witness ==
    /\ QuadAppended
    /\ TheSprite.flip_x /\ TheSprite.flip_y
    /\ TheSprite.rect = Some(RectNew(10, 10, 48, 42))
    /\ MeshOf(TheMat)[UV_0][1][1] = Frac(48, 64)

-----------------------------------------------------------------------------
(* C18: with a rect and no flip the UVs are BL (min.x/W, max.y/H),           *)
(* BR (max.x/W, max.y/H), TR (max.x/W, min.y/H), TL (min.x/W, min.y/H) for   *)
(* the native size (W, H), with custom_size set too; rect (10,10)-(48,42)    *)
(* on a 64x64 texture gives BL (10/64, 42/64) and TR (48/64, 10/64).         *)
C18_RectUVsByNativeSize ==
    (QuadAppended /\ TheSprite.rect /= None /\ ~TheSprite.flip_x /\ ~TheSprite.flip_y) =>
        LET uv == MeshOf(TheMat)[UV_0]
            min == TheSprite.rect[1].min
            max == TheSprite.rect[1].max
            W == ImageSize(TheMat)[1]
            H == ImageSize(TheMat)[2]
        IN  /\ uv = << <<Frac(min[1], W), Frac(max[2], H)>>,
                       <<Frac(max[1], W), Frac(max[2], H)>>,
                       <<Frac(max[1], W), Frac(min[2], H)>>,
                       <<Frac(min[1], W), Frac(min[2], H)>> >>
            /\ (TheSprite.rect = Some(RectNew(10, 10, 48, 42)) /\ TheMat = "pokey_mat") =>
                  /\ uv[1] = <<Frac(10, 64), Frac(42, 64)>>
                  /\ uv[3] = <<Frac(48, 64), Frac(10, 64)>>

\* The example rect on the 64x64 texture, with a custom size, has been appended.
C18_Witness ==
    /\ QuadAppended
    /\ TheMat = "pokey_mat"
    /\ TheSprite.rect = Some(RectNew(10, 10, 48, 42))
    /\ TheSprite.custom_size = Some(<<10, 5>>)
    /\ ~TheSprite.flip_x /\ ~TheSprite.flip_y
    /\ MeshOf(TheMat)[UV_0][1] = <<Frac(10, 64), Frac(42, 64)>>

-----------------------------------------------------------------------------
(* C19: the positions are the pose applied to BL, BR, TR, TL =               *)
(* (-S.x/2,-S.y/2), (S.x/2,-S.y/2), (S.x/2,S.y/2), (-S.x/2,S.y/2), each      *)
(* shifted by O = -A*S, Z = 0, so that under a pure translation the anchor   *)
(* point (centre + A*S) is the pose origin. In pixels: anchor (0,0), size    *)
(* (64,32) gives (+-32, +-16); anchor (0.5,-0.5), size (64,32) gives X in    *)
(* {-64, 0}, Y in {0, 32}, BR at the origin.                                 *)
C19_CornersAboutAnchor ==
    QuadAppended =>
        LET pos == MeshOf(TheMat)[POSITION]
            S == ClaimedSize(TheSprite, ImageSize(TheMat))
            A == AnchorVec2(TheSprite.anchor)
            plain == ThePose = FromXYZ(0, 0, 0)
        IN  /\ pos = ClaimedCorners(TheSprite, ThePose, ImageSize(TheMat))
            /\ ThePose.matrix = Identity3 =>
                  /\ pos[1][1] + pos[3][1] + 2 * A[1] * S[1] = 4 * ThePose.translation[1]
                  /\ pos[1][2] + pos[3][2] + 2 * A[2] * S[2] = 4 * ThePose.translation[2]
                  /\ \A k \in 1..4 : pos[k][3] = 2 * ThePose.translation[3]
            /\ (plain /\ S = <<64, 32>> /\ TheSprite.anchor = "Center") =>
                  pos = << <<-64, -32, 0>>, <<64, -32, 0>>, <<64, 32, 0>>, <<-64, 32, 0>> >>
            /\ (plain /\ S = <<64, 32>> /\ TheSprite.anchor = "BottomRight") =>
                  pos = << <<-128, 0, 0>>, <<0, 0, 0>>, <<0, 64, 0>>, <<-128, 64, 0>> >>

\* The bottom-right anchored 64x32 quad has been appended at the origin.
C19_Witness ==
    /\ QuadAppended
    /\ ThePose = FromXYZ(0, 0, 0)
    /\ TheSprite.anchor = "BottomRight"
    /\ TheSprite.custom_size = None /\ TheSprite.rect = None
    /\ TheMat = "health_mat"
    /\ MeshOf(TheMat)[POSITION][2] = <<0, 0, 0>>

-----------------------------------------------------------------------------
(* C20: while only the registry writes its meshes, every entry's mesh handle *)
(* is in the mesh store and its mesh carries the position, UV, normal and    *)
(* colour arrays and the index array, and no panic is reached: neither the   *)
(* unwrap of submit and clear_meshes nor a 'Missing mesh ...' of             *)
(* submit_sprite.                                                            *)
C20_NoPanicReachable ==
    /\ pc /= "Panicked"
    /\ \A m \in DOMAIN meshes :
          /\ meshes[m].mesh \in DOMAIN mesh_assets
          /\ DOMAIN mesh_assets[meshes[m].mesh] = {POSITION, UV_0, NORMAL, COLOR, INDICES}

\* Both materials have entries with a quad each, one of them created anew
\* after its material was unloaded, pruned and loaded again.
C20_Witness ==
    /\ AfterCycle
    /\ DOMAIN meshes = Mats
    /\ \A m \in Mats : QuadCount(m) = 1
    /\ \E e \in DOMAIN spawned : despawns[e] = 1 /\ meshes[spawned[e]].entity /= e

====
